---- MODULE Spec2Model ----
(***************************************************************************)
(* A model of the SDP parser `impl AsSDP for [u8]` (src/src/lib.rs).        *)
(*                                                                         *)
(* The parser is one loop over the bytes of the buffer.  One step of the   *)
(* model is one iteration of that loop; the actions are the arms of the    *)
(* `match &phase` and the code that follows the loop.  A byte is a string  *)
(* of one character, the buffer a sequence of bytes, and a slice           *)
(* &self[s..e] the pair of its offsets (0-based, as in the source).        *)
(***************************************************************************)
EXTENDS Integers, Sequences, FiniteSets, TLC

VARIABLES
    input,               \* self: the buffer
    i,                   \* the byte index
    phase,               \* Phase
    section,             \* Section, with the fields of Section::Media
    op,                  \* Operator, with the fields of O, C and T
    slice_start,         \* Option<usize>
    version,             \* Option<&[u8]>
    origin,              \* Option<Origin>
    session_name,        \* Option<&[u8]>
    connection,          \* Option<ConnectionData>
    session_start_time,  \* u64
    session_end_time,    \* u64
    medias,              \* Vec<Media>
    attributes,          \* Vec<&[u8]>
    result,              \* "running", or how as_sdp ended: "some", "none", "panic"
    accepted             \* history: the lines the Begin phase let through

vars == <<input, i, phase, section, op, slice_start, version, origin,
          session_name, connection, session_start_time, session_end_time,
          medias, attributes, result, accepted>>

-----------------------------------------------------------------------------
(* Option<T> *)

None == [tag |-> "None"]

Some(v) == [tag |-> "Some", val |-> v]

IsSome(o) == o.tag = "Some"

(* &self[s..e] *)
Slice(s, e) == [s |-> s, e |-> e]

(* The bytes of a slice of the buffer buf. *)
BytesOf(buf, sl) == SubSeq(buf, sl.s + 1, sl.e)

CR == "\r"

LF == "\n"

SP == " "

IsEol(b) == b = CR \/ b = LF

-----------------------------------------------------------------------------
(* Integers.  u64 values do not fit the model checker's integers, so a     *)
(* non-negative integer is three limbs in base 10^9, most significant      *)
(* first.                                                                  *)

Base == 10 ^ 9

Digits == {"0", "1", "2", "3", "4", "5", "6", "7", "8", "9"}

DigitVal(c) ==
    CASE c = "0" -> 0 [] c = "1" -> 1 [] c = "2" -> 2 [] c = "3" -> 3
      [] c = "4" -> 4 [] c = "5" -> 5 [] c = "6" -> 6 [] c = "7" -> 7
      [] c = "8" -> 8 [] c = "9" -> 9

RECURSIVE DecVal(_)
DecVal(ds) ==
    IF ds = <<>> THEN 0
    ELSE DecVal(SubSeq(ds, 1, Len(ds) - 1)) * 10 + DigitVal(ds[Len(ds)])

RECURSIVE StripZeros(_)
StripZeros(ds) ==
    IF Len(ds) > 1 /\ ds[1] = "0" THEN StripZeros(Tail(ds)) ELSE ds

(* The k-th group of nine digits of ds, counted from the right, k = 0, 1, 2. *)
Chunk(ds, k) ==
    LET hi == Len(ds) - 9 * k
        lo == IF hi - 8 < 1 THEN 1 ELSE hi - 8
    IN  IF hi < 1 THEN <<>> ELSE SubSeq(ds, lo, hi)

ToLimbs(ds) == <<DecVal(Chunk(ds, 2)), DecVal(Chunk(ds, 1)), DecVal(Chunk(ds, 0))>>

LimbLess(a, b) ==
    \/ a[1] < b[1]
    \/ a[1] = b[1] /\ a[2] < b[2]
    \/ a[1] = b[1] /\ a[2] = b[2] /\ a[3] < b[3]

LimbAdd(a, b) ==
    LET s3 == a[3] + b[3]
        c3 == IF s3 >= Base THEN 1 ELSE 0
        s2 == a[2] + b[2] + c3
        c2 == IF s2 >= Base THEN 1 ELSE 0
    IN  <<a[1] + b[1] + c2, s2 - c2 * Base, s3 - c3 * Base>>

(* a - b, for a >= b *)
LimbSub(a, b) ==
    LET d3 == a[3] - b[3]
        w3 == IF d3 < 0 THEN 1 ELSE 0
        d2 == a[2] - b[2] - w3
        w2 == IF d2 < 0 THEN 1 ELSE 0
    IN  <<a[1] - b[1] - w2, d2 + w2 * Base, d3 + w3 * Base>>

Zero == <<0, 0, 0>>

(* u64::MIN, u64::MAX, 2^64 *)
U64_MIN == Zero

U64_MAX == <<18, 446744073, 709551615>>

TwoTo64 == <<18, 446744073, 709551616>>

U16_MAX == <<0, 0, 65535>>

I32_MAX == <<0, 2, 147483647>>

(* 2^31, the magnitude of i32::MIN *)
I32_MIN_MAG == <<0, 2, 147483648>>

(* The literal 2208988800 of `t - 2208988800`. *)
NTP_OFFSET == <<0, 2, 208988800>>

(* The value of limbs that fit the checker's integers (up to 2^31 - 1). *)
LimbInt(a) == a[2] * Base + a[3]

(* R::from_str for the primitive integer types: an optional sign ('+' for   *)
(* every type, '-' for the signed ones only), then one or more ASCII        *)
(* digits; anything else, and a value out of the type's range, is an       *)
(* error.  [ok, neg, mag]: mag is the magnitude in limbs.                   *)
FromStr(s, signed, maxPos, maxNeg) ==
    LET sgn  == IF s # <<>> /\ (s[1] = "+" \/ (signed /\ s[1] = "-")) THEN 1 ELSE 0
        neg  == sgn = 1 /\ s[1] = "-"
        ds   == SubSeq(s, sgn + 1, Len(s))
        nz   == StripZeros(ds)
        bad  == [ok |-> FALSE, neg |-> FALSE, mag |-> Zero]
    IN  IF ds = <<>> \/ \E k \in 1..Len(ds) : ds[k] \notin Digits THEN bad
        ELSE IF Len(nz) > 27 THEN bad
        ELSE LET m == ToLimbs(nz)
             IN  IF LimbLess(IF neg THEN maxNeg ELSE maxPos, m) THEN bad
                 ELSE [ok |-> TRUE, neg |-> neg, mag |-> m]

(* <[u8] as ToInt>::to_int::<u64>: the value in limbs.  The buffers of the *)
(* model are ASCII, so std::str::from_utf8 always succeeds.                *)
to_int_u64(s) == FromStr(s, FALSE, U64_MAX, Zero)

(* to_int::<u16> and to_int::<i32>: val is the integer itself. *)
to_int_u16(s) ==
    LET r == FromStr(s, FALSE, U16_MAX, Zero)
    IN  [ok |-> r.ok, val |-> IF r.ok THEN LimbInt(r.mag) ELSE 0]

to_int_i32(s) ==
    LET r == FromStr(s, TRUE, I32_MAX, I32_MIN_MAG)
    IN  [ok |-> r.ok,
         val |-> IF ~r.ok THEN 0
                 ELSE IF ~r.neg THEN LimbInt(r.mag)
                 ELSE IF r.mag = Zero THEN 0
                 ELSE (0 - LimbInt(LimbSub(r.mag, <<0, 0, 1>>))) - 1]

(* t - 2208988800 on u64.  The subtraction overflows when t < 2208988800:  *)
(* a build with overflow checks panics there, a build without them wraps   *)
(* modulo 2^64.                                                            *)
SubOffset(t, checked) ==
    IF ~LimbLess(t, NTP_OFFSET) THEN [panic |-> FALSE, val |-> LimbSub(t, NTP_OFFSET)]
    ELSE IF checked THEN [panic |-> TRUE, val |-> Zero]
    ELSE [panic |-> FALSE, val |-> LimbSub(LimbAdd(t, TwoTo64), NTP_OFFSET)]

-----------------------------------------------------------------------------
(* Operator.  f holds the fields of O (five), C (two) and T (one).         *)

Op(tag, f) == [tag |-> tag, f |-> f]

OpNone == Op("None", <<>>)

(* Operator::get_order *)
get_order(o) ==
    CASE o.tag = "None" -> 0
      [] o.tag = "V" -> 1
      [] o.tag = "O" -> 2
      [] o.tag = "S" -> 3
      [] o.tag = "I" -> 4
      [] o.tag = "U" -> 5
      [] o.tag = "E" -> 6
      [] o.tag = "P" -> 7
      [] o.tag = "C" -> 8
      [] o.tag = "B" -> 9
      [] o.tag = "T" -> 10
      [] o.tag = "R" -> 11
      [] o.tag = "Z" -> 12
      [] o.tag = "K" -> 13
      [] o.tag = "A" -> 14
      [] o.tag = "M" -> 15

(* The next_op the Begin phase builds from the leading byte. *)
NextOp(b) ==
    CASE b = "v" -> Op("V", <<>>)
      [] b = "o" -> Op("O", <<None, None, None, None, None>>)
      [] b = "s" -> Op("S", <<>>)
      [] b = "i" -> Op("I", <<>>)
      [] b = "u" -> Op("U", <<>>)
      [] b = "e" -> Op("E", <<>>)
      [] b = "p" -> Op("P", <<>>)
      [] b = "c" -> Op("C", <<None, None>>)
      [] b = "b" -> Op("B", <<>>)
      [] b = "t" -> Op("T", <<None>>)
      [] b = "r" -> Op("R", <<>>)
      [] b = "z" -> Op("Z", <<>>)
      [] b = "k" -> Op("K", <<>>)
      [] b = "a" -> Op("A", <<>>)
      [] b = "m" -> Op("M", <<>>)
      [] OTHER -> OpNone

(* Section *)
SectionMain == [tag |-> "Main"]

SectionTime == [tag |-> "Time"]

SectionMedia(mt, pp, pr, fo, co, at) ==
    [tag |-> "Media", media_type |-> mt, port_pair |-> pp, protocol |-> pr,
     formats |-> fo, connection |-> co, attributes |-> at]

(* MainAccepts without the comparison with the current operator. *)
MainAccepts_AnyKnown(cur, next) == get_order(OpNone) < get_order(next)

(* MainAccepts with <= for <. *)
MainAccepts_OrEqual(cur, next) ==
    \/ get_order(cur) <= get_order(next)
    \/ cur.tag = "A" /\ next.tag = "A"

(* The Begin phase's test in Section::Main. *)
MainAccepts(cur, next) ==
    \/ get_order(cur) < get_order(next)
    \/ cur.tag = "A" /\ next.tag = "A"

(* TimeAccepts with the bound at the order of None instead of T. *)
TimeAccepts_FromNone(cur, next) == get_order(next) >= get_order(OpNone)

(* The Begin phase's test in Section::Time. *)
TimeAccepts(cur, next) == get_order(next) >= get_order(Op("T", <<None>>))

(* MediaAccepts with t admitted in a media block. *)
MediaAccepts_TimeToo(cur, next) ==
    IF get_order(cur) < get_order(next)
    THEN next.tag \in {"I", "C", "B", "T", "K", "A", "M"}
    ELSE cur.tag = "A" /\ next.tag = "A"

(* MediaAccepts without the list of letters a media block admits. *)
MediaAccepts_AnyLetter(cur, next) ==
    IF get_order(cur) < get_order(next)
    THEN TRUE
    ELSE cur.tag = "A" /\ next.tag = "A"

(* The Begin phase's test in Section::Media. *)
MediaAccepts(cur, next) ==
    IF get_order(cur) < get_order(next)
    THEN next.tag \in {"I", "C", "B", "K", "A", "M"}
    ELSE cur.tag = "A" /\ next.tag = "A"

Accepts(sec, cur, next) ==
    CASE sec.tag = "Main" -> MainAccepts(cur, next)
      [] sec.tag = "Time" -> TimeAccepts(cur, next)
      [] sec.tag = "Media" -> MediaAccepts(cur, next)

(* The pattern of the two `if let Section::Media(Some, Some, Some, Some,   *)
(* connection, Some) = section`.                                           *)
MediaComplete(sec) ==
    /\ sec.tag = "Media"
    /\ IsSome(sec.media_type)
    /\ IsSome(sec.port_pair)
    /\ IsSome(sec.protocol)
    /\ IsSome(sec.formats)
    /\ IsSome(sec.attributes)

(* The Media pushed for a complete section. *)
MediaOf(sec) ==
    [media_type      |-> sec.media_type.val,
     port            |-> sec.port_pair.val[1],
     number_of_ports |-> sec.port_pair.val[2],
     protocol        |-> sec.protocol.val,
     formats         |-> sec.formats.val,
     connection      |-> sec.connection,
     attributes      |-> sec.attributes.val]

PushMedia(ms, sec) == IF MediaComplete(sec) THEN Append(ms, MediaOf(sec)) ELSE ms

(* SdpComplete without the test of session_name. *)
SdpComplete_NoSessionName(v, o, s) == IsSome(v) /\ IsSome(o)

(* The test of the final `if let (Some(version), Some(origin),             *)
(* Some(session_name))`.                                                   *)
SdpComplete(v, o, s) == IsSome(v) /\ IsSome(o) /\ IsSome(s)

(* PushOpt replacing the vector instead of pushing to it. *)
PushOpt_Replace(ov, x) == Some(<<x>>)

(* Option<Vec<_>>: push, creating the vector on the first element. *)
PushOpt(ov, x) == IF IsSome(ov) THEN Some(Append(ov.val, x)) ELSE Some(<<x>>)

(* The port token of an m= line: split on the first '/', if any. *)
RECURSIVE Position(_, _, _)
Position(s, c, k) ==
    IF k > Len(s) THEN 0 ELSE IF s[k] = c THEN k ELSE Position(s, c, k + 1)

(* ParsePortPair counting no ports when the token has no '/'. *)
ParsePortPair_NoPorts(s) ==
    LET idx == Position(s, "/", 1)
    IN  IF idx > 0
        THEN LET p == to_int_u16(SubSeq(s, 1, idx - 1))
                 n == to_int_i32(SubSeq(s, idx + 1, Len(s)))
             IN  IF p.ok /\ n.ok THEN Some(<<p.val, n.val>>) ELSE None
        ELSE LET p == to_int_u16(s)
             IN  IF p.ok THEN Some(<<p.val, 0>>) ELSE None

ParsePortPair(s) ==
    LET idx == Position(s, "/", 1)
    IN  IF idx > 0
        THEN LET p == to_int_u16(SubSeq(s, 1, idx - 1))
                 n == to_int_i32(SubSeq(s, idx + 1, Len(s)))
             IN  IF p.ok /\ n.ok THEN Some(<<p.val, n.val>>) ELSE None
        ELSE LET p == to_int_u16(s)
             IN  IF p.ok THEN Some(<<p.val, 1>>) ELSE None

(* One time token of a t= line: the literal "0" is zeroVal, any other      *)
(* token is parsed and the offset subtracted.                              *)
DecodeTime(tok, zeroVal, checked) ==
    IF tok = <<"0">> THEN [ret |-> "running", val |-> zeroVal]
    ELSE LET t == to_int_u64(tok)
         IN  IF ~t.ok THEN [ret |-> "none", val |-> Zero]
             ELSE LET d == SubOffset(t.mag, checked)
                  IN  IF d.panic THEN [ret |-> "panic", val |-> Zero]
                      ELSE [ret |-> "running", val |-> d.val]

-----------------------------------------------------------------------------
(* The loop body.  b is self[i]; Tok is &self[slice_start..i].             *)

Running == result = "running" /\ i < Len(input)

b == input[i + 1]

Tok == Slice(slice_start.val, i)

(* The locals a Reading handler may assign, as they stand; ret is          *)
(* "running" unless the handler returns, freeform is the space handler's   *)
(* flag.                                                                   *)
Cur ==
    [ret |-> "running", freeform |-> FALSE, slice_start |-> slice_start,
     version |-> version, origin |-> origin, session_name |-> session_name,
     connection |-> connection, session_start_time |-> session_start_time,
     session_end_time |-> session_end_time, attributes |-> attributes,
     section |-> section, op |-> op]

ReturnNone == [Cur EXCEPT !.ret = "none"]

(* The number of leading Some of the positional fields f when f is some    *)
(* fields followed by none, -1 otherwise.                                  *)
Filled(f) ==
    LET n == Cardinality({k \in 1..Len(f) : IsSome(f[k])})
    IN  IF \A k \in 1..Len(f) : IsSome(f[k]) <=> k <= n THEN n ELSE 0 - 1

AllSome(f) == \A k \in 1..Len(f) : IsSome(f[k])

(* FillNext that drops a space after the last positional field instead of *)
(* returning None.                                                         *)
FillNext_IgnoreExtra ==
    LET n == Filled(op.f)
    IN  IF n < 0 \/ n >= Len(op.f) THEN [Cur EXCEPT !.slice_start = None]
        ELSE [Cur EXCEPT !.op = IF IsSome(slice_start)
                                 THEN Op(op.tag, [op.f EXCEPT ![n + 1] = Some(Tok)])
                                 ELSE @,
                         !.slice_start = None]

(* The space handler of O and of C: the token goes to the first empty      *)
(* positional field; a space with every field full returns None.           *)
FillNext ==
    LET n == Filled(op.f)
    IN  IF n < 0 \/ n >= Len(op.f) THEN ReturnNone
        ELSE [Cur EXCEPT !.op = IF IsSome(slice_start)
                                 THEN Op(op.tag, [op.f EXCEPT ![n + 1] = Some(Tok)])
                                 ELSE @,
                         !.slice_start = None]

(* OriginOf with user_id and session_id exchanged. *)
OriginOf_Swapped(f, last) ==
    [user_id |-> f[2].val, session_id |-> f[1].val, session_version |-> f[3].val,
     network_type |-> f[4].val, address_type |-> f[5].val, unicast_address |-> last]

OriginOf(f, last) ==
    [user_id |-> f[1].val, session_id |-> f[2].val, session_version |-> f[3].val,
     network_type |-> f[4].val, address_type |-> f[5].val, unicast_address |-> last]

ConnectionOf(f, last) ==
    [network_type |-> f[1].val, address_type |-> f[2].val, connection_address |-> last]

(* Section::Main, line end *)
MainLineEnd ==
    CASE op.tag = "V" ->
           [Cur EXCEPT !.version = IF IsSome(slice_start) THEN Some(Tok) ELSE @,
                       !.slice_start = None]
      [] op.tag = "O" ->
           IF AllSome(op.f)
           THEN [Cur EXCEPT !.origin = IF IsSome(slice_start)
                                       THEN Some(OriginOf(op.f, Tok)) ELSE @,
                            !.slice_start = None]
           ELSE ReturnNone
      [] op.tag = "S" ->
           [Cur EXCEPT !.session_name = IF IsSome(slice_start) THEN Some(Tok) ELSE @,
                       !.slice_start = None]
      [] op.tag \in {"I", "U", "E", "P"} -> Cur
      [] op.tag = "C" ->
           IF AllSome(op.f)
           THEN [Cur EXCEPT !.connection = IF IsSome(slice_start)
                                           THEN Some(ConnectionOf(op.f, Tok)) ELSE @,
                            !.slice_start = None]
           ELSE ReturnNone
      [] op.tag \in {"B", "Z", "K"} -> Cur
      [] op.tag = "A" ->
           [Cur EXCEPT !.attributes = IF IsSome(slice_start) THEN Append(@, Tok) ELSE @,
                       !.slice_start = None]
      [] OTHER -> ReturnNone

(* Section::Time, line end *)
TimeLineEnd(checked) ==
    CASE op.tag = "T" ->
           IF ~IsSome(op.f[1]) THEN ReturnNone
           ELSE LET st == DecodeTime(BytesOf(input, op.f[1].val), U64_MIN, checked)
                IN  IF st.ret # "running" THEN [Cur EXCEPT !.ret = st.ret]
                    ELSE IF ~IsSome(slice_start) THEN ReturnNone
                    ELSE LET en == DecodeTime(BytesOf(input, Tok), U64_MAX, checked)
                         IN  IF en.ret # "running" THEN [Cur EXCEPT !.ret = en.ret]
                             ELSE [Cur EXCEPT !.session_start_time = st.val,
                                              !.session_end_time = en.val,
                                              !.slice_start = None]
      [] op.tag = "R" -> Cur
      [] op.tag = "A" ->
           [Cur EXCEPT !.attributes = IF IsSome(slice_start) THEN Append(@, Tok) ELSE @,
                       !.slice_start = None]
      [] OTHER -> ReturnNone

(* MediaLineEnd with c= assigning the session-level connection. *)
MediaLineEnd_SessionConnection ==
    CASE op.tag = "None" ->
           [Cur EXCEPT !.section.formats = IF IsSome(slice_start) THEN PushOpt(@, Tok) ELSE @,
                       !.slice_start = None]
      [] op.tag = "I" -> Cur
      [] op.tag = "C" ->
           IF AllSome(op.f)
           THEN [Cur EXCEPT !.connection = IF IsSome(slice_start)
                                           THEN Some(ConnectionOf(op.f, Tok)) ELSE @,
                            !.slice_start = None]
           ELSE ReturnNone
      [] op.tag \in {"B", "K"} -> Cur
      [] op.tag = "A" ->
           [Cur EXCEPT !.section.attributes = IF IsSome(slice_start) THEN PushOpt(@, Tok) ELSE @,
                       !.slice_start = None]
      [] OTHER -> Cur

(* Section::Media, line end *)
MediaLineEnd ==
    CASE op.tag = "None" ->
           [Cur EXCEPT !.section.formats = IF IsSome(slice_start) THEN PushOpt(@, Tok) ELSE @,
                       !.slice_start = None]
      [] op.tag = "I" -> Cur
      [] op.tag = "C" ->
           IF AllSome(op.f)
           THEN [Cur EXCEPT !.section.connection = IF IsSome(slice_start)
                                                   THEN Some(ConnectionOf(op.f, Tok)) ELSE @,
                            !.slice_start = None]
           ELSE ReturnNone
      [] op.tag \in {"B", "K"} -> Cur
      [] op.tag = "A" ->
           [Cur EXCEPT !.section.attributes = IF IsSome(slice_start) THEN PushOpt(@, Tok) ELSE @,
                       !.slice_start = None]
      [] OTHER -> Cur

LineEnd(checked) ==
    CASE section.tag = "Main" -> MainLineEnd
      [] section.tag = "Time" -> TimeLineEnd(checked)
      [] section.tag = "Media" -> MediaLineEnd

(* MainSpace with a space in s= closing a token instead of returning. *)
MainSpace_SpaceInName ==
    CASE op.tag = "V" -> ReturnNone
      [] op.tag = "O" -> FillNext
      [] op.tag = "S" -> Cur
      [] op.tag \in {"I", "U", "E", "P"} -> Cur
      [] op.tag = "C" -> FillNext
      [] op.tag \in {"B", "Z", "K"} -> Cur
      [] op.tag = "A" -> [Cur EXCEPT !.freeform = TRUE]
      [] OTHER -> ReturnNone

(* Section::Main, space *)
MainSpace ==
    CASE op.tag = "V" -> ReturnNone
      [] op.tag = "O" -> FillNext
      [] op.tag = "S" -> ReturnNone
      [] op.tag \in {"I", "U", "E", "P"} -> Cur
      [] op.tag = "C" -> FillNext
      [] op.tag \in {"B", "Z", "K"} -> Cur
      [] op.tag = "A" -> [Cur EXCEPT !.freeform = TRUE]
      [] OTHER -> ReturnNone

(* Section::Time, space *)
TimeSpace ==
    CASE op.tag = "T" ->
           [Cur EXCEPT !.op = IF IsSome(slice_start) THEN Op("T", <<Some(Tok)>>) ELSE @,
                       !.slice_start = None]
      [] op.tag = "R" -> Cur
      [] op.tag = "A" -> [Cur EXCEPT !.freeform = TRUE]
      [] OTHER -> ReturnNone

(* Section::Media, space under Operator::None: the m= header *)
MediaHeaderSpace ==
    LET mt == IsSome(section.media_type)
        pp == IsSome(section.port_pair)
        pr == IsSome(section.protocol)
        fo == IsSome(section.formats)
    IN  CASE mt /\ pp /\ pr ->
               [Cur EXCEPT !.section.formats = IF IsSome(slice_start) THEN PushOpt(@, Tok) ELSE @,
                           !.slice_start = None]
          [] mt /\ pp /\ ~pr /\ ~fo ->
               [Cur EXCEPT !.section.protocol = IF IsSome(slice_start) THEN Some(Tok) ELSE @,
                           !.slice_start = None]
          [] mt /\ ~pp /\ ~pr /\ ~fo ->
               IF ~IsSome(slice_start) THEN Cur
               ELSE LET pair == ParsePortPair(BytesOf(input, Tok))
                    IN  IF IsSome(pair)
                        THEN [Cur EXCEPT !.section.port_pair = pair, !.slice_start = None]
                        ELSE ReturnNone
          [] ~mt /\ ~pp /\ ~pr /\ ~fo ->
               [Cur EXCEPT !.section.media_type = IF IsSome(slice_start) THEN Some(Tok) ELSE @,
                           !.slice_start = None]
          [] OTHER -> Cur

(* Section::Media, space *)
MediaSpace ==
    CASE op.tag = "None" -> MediaHeaderSpace
      [] op.tag = "I" -> Cur
      [] op.tag = "C" -> FillNext
      [] op.tag \in {"B", "K"} -> Cur
      [] op.tag = "A" -> [Cur EXCEPT !.freeform = TRUE]
      [] OTHER -> ReturnNone

(* The space handler, with the `if !freeform { slice_start = None; }`      *)
(* that follows the match.                                                 *)
Space ==
    LET r == CASE section.tag = "Main" -> MainSpace
               [] section.tag = "Time" -> TimeSpace
               [] section.tag = "Media" -> MediaSpace
    IN  IF r.ret = "running" /\ ~r.freeform THEN [r EXCEPT !.slice_start = None] ELSE r

-----------------------------------------------------------------------------
(* The buffers the parser is run on: a head (the v=, o= and s= lines, well *)
(* formed or not) followed by up to MaxTail lines of TailLines, and the    *)
(* sequences of up to MaxOrderLines lines of OrderLines.                   *)

MaxTail == 2

MaxOrderLines == 3

CRLF == <<CR, LF>>

RECURSIVE Flatten(_)
Flatten(ss) == IF ss = <<>> THEN <<>> ELSE Head(ss) \o Flatten(Tail(ss))

RECURSIVE Words(_)
Words(toks) ==
    IF toks = <<>> THEN <<>>
    ELSE IF Len(toks) = 1 THEN toks[1]
    ELSE toks[1] \o <<SP>> \o Words(Tail(toks))

Line(letter, value, eol) == <<letter, "=">> \o value \o eol

SixTokens == << <<"a", "l">>, <<"1">>, <<"2">>, <<"I">>, <<"4">>, <<"h">> >>

OtherSixTokens == << <<"b">>, <<"7">>, <<"8", "9">>, <<"N">>, <<"6">>, <<":", ":">> >>

(* "2208988800" and "2208988801" *)
NtpEpoch == <<"2", "2", "0", "8", "9", "8", "8", "8", "0", "0">>

NtpEpochPlusOne == <<"2", "2", "0", "8", "9", "8", "8", "8", "0", "1">>

VLine == Line("v", <<"0">>, CRLF)

OLine == Line("o", Words(SixTokens), CRLF)

SLine == Line("s", <<"x">>, CRLF)

GoodHeads ==
    { VLine \o OLine \o SLine,
      Line("v", <<"1", "2">>, CRLF) \o Line("o", Words(OtherSixTokens), CRLF)
          \o Line("s", <<"C", "a">>, CRLF),
      Line("v", <<"0">>, <<LF>>) \o Line("o", Words(SixTokens), <<LF>>)
          \o Line("s", <<"x">>, <<CR>>),
      VLine \o Line("o", <<"a", SP, SP, "1", SP>> \o Words(Tail(Tail(SixTokens))), CRLF)
          \o SLine }

BadHeads ==
    { <<>>,
      OLine \o SLine,
      VLine \o SLine,
      VLine \o OLine,
      SLine \o OLine \o VLine,
      Line("v", <<>>, CRLF) \o OLine \o SLine,
      Line("v", <<"0", SP>>, CRLF) \o OLine \o SLine,
      VLine \o Line("o", <<>>, CRLF) \o SLine,
      VLine \o Line("o", Words(SubSeq(SixTokens, 1, 5)), CRLF) \o SLine,
      VLine \o Line("o", Words(SubSeq(SixTokens, 1, 5)) \o <<SP>>, CRLF) \o SLine,
      VLine \o Line("o", Words(SixTokens) \o <<SP>>, CRLF) \o SLine,
      VLine \o Line("o", Words(SixTokens \o << <<"g">> >>), CRLF) \o SLine,
      VLine \o OLine \o Line("s", <<>>, CRLF),
      VLine \o OLine \o Line("s", <<"x", SP, "y">>, CRLF),
      VLine \o OLine \o Line("s", <<SP, "x">>, CRLF),
      VLine \o OLine \o <<"s", "=", "x">> }

Heads == GoodHeads \cup BadHeads

TailLines ==
    { Line("i", <<"h">>, <<LF>>),
      Line("c", <<"n", SP, "t", SP, "d">>, <<LF>>),
      Line("c", <<"n", SP, "t", SP>>, <<LF>>),
      Line("a", <<"x", SP, "y">>, <<LF>>),
      Line("t", <<"0", SP, "0">>, <<LF>>),
      Line("t", <<"1", SP, "0">>, <<LF>>),
      Line("t", NtpEpoch \o <<SP>> \o NtpEpochPlusOne, <<LF>>),
      Line("t", <<"0", SP, "x">>, <<LF>>),
      Line("m", <<"a", SP, "1", SP, "p", SP, "0">>, <<LF>>),
      Line("k", <<"q">>, <<LF>>),
      <<"?", LF>> }

OrderLines ==
    { Line("v", <<"0">>, <<LF>>),
      Line("o", Words(SixTokens), <<LF>>),
      Line("s", <<"x">>, <<LF>>),
      Line("i", <<"h">>, <<LF>>),
      Line("u", <<"h">>, <<LF>>),
      Line("e", <<"h">>, <<LF>>),
      Line("p", <<"h">>, <<LF>>),
      Line("c", <<"n", SP, "t", SP, "d">>, <<LF>>),
      Line("b", <<"h">>, <<LF>>),
      Line("t", <<"0", SP, "0">>, <<LF>>),
      Line("r", <<"h">>, <<LF>>),
      Line("z", <<"h">>, <<LF>>),
      Line("k", <<"h">>, <<LF>>),
      Line("a", <<"h">>, <<LF>>),
      Line("m", <<"a", SP, "1", SP, "p", SP, "0">>, <<LF>>),
      <<"a", LF>>,
      <<"x", "=", "h", LF>> }

SeqsUpTo(S, n) == UNION {[1..k -> S] : k \in 0..n}

Docs ==
    {h \o Flatten(t) : h \in Heads, t \in SeqsUpTo(TailLines, MaxTail)}
        \cup {Flatten(t) : t \in SeqsUpTo(OrderLines, MaxOrderLines)}

-----------------------------------------------------------------------------
(* The state on entry to the loop. *)
Init ==
    /\ input \in Docs
    /\ i = 0
    /\ phase = "Begin"
    /\ section = SectionMain
    /\ op = OpNone
    /\ slice_start = None
    /\ version = None
    /\ origin = None
    /\ session_name = None
    /\ connection = None
    /\ session_start_time = Zero
    /\ session_end_time = Zero
    /\ medias = <<>>
    /\ attributes = <<>>
    /\ result = "running"
    /\ accepted = <<>>

(* Phase::Begin *)
BeginStep ==
    /\ Running
    /\ phase = "Begin"
    /\ i' = i + 1
    /\ IF IsEol(b)
       THEN UNCHANGED <<phase, op, accepted>>
       ELSE IF Accepts(section, op, NextOp(b))
       THEN /\ op' = NextOp(b)
            /\ phase' = "Set"
            /\ accepted' = Append(accepted, [op |-> NextOp(b).tag, section |-> section.tag,
                                             prev |-> op.tag, at |-> i])
       ELSE /\ phase' = "SkippingError"
            /\ UNCHANGED <<op, accepted>>
    /\ UNCHANGED <<input, section, slice_start, version, origin, session_name, connection,
                   session_start_time, session_end_time, medias, attributes, result>>

(* Phase::Set *)
SetStep ==
    /\ Running
    /\ phase = "Set"
    /\ i' = i + 1
    /\ IF b = "="
       THEN /\ section' = CASE op.tag \in {"T", "R"} -> SectionTime
                            [] op.tag = "M" -> SectionMedia(None, None, None, None, None, None)
                            [] OTHER -> section
            /\ medias' = IF op.tag = "M" THEN PushMedia(medias, section) ELSE medias
            /\ op' = IF op.tag = "M" THEN OpNone ELSE op
            /\ phase' = "Reading"
       ELSE /\ phase' = IF IsEol(b) THEN "Begin" ELSE "SkippingError"
            /\ UNCHANGED <<section, medias, op>>
    /\ UNCHANGED <<input, slice_start, version, origin, session_name, connection,
                   session_start_time, session_end_time, attributes, result, accepted>>

(* What a Reading handler leaves: it returns, or assigns its locals and    *)
(* the loop goes on in phase ph.                                           *)
Handled(r, ph) ==
    IF r.ret # "running"
    THEN /\ result' = r.ret
         /\ UNCHANGED <<input, i, phase, section, op, slice_start, version, origin,
                        session_name, connection, session_start_time, session_end_time,
                        medias, attributes, accepted>>
    ELSE /\ i' = i + 1
         /\ phase' = ph
         /\ section' = r.section
         /\ op' = r.op
         /\ slice_start' = r.slice_start
         /\ version' = r.version
         /\ origin' = r.origin
         /\ session_name' = r.session_name
         /\ connection' = r.connection
         /\ session_start_time' = r.session_start_time
         /\ session_end_time' = r.session_end_time
         /\ attributes' = r.attributes
         /\ UNCHANGED <<input, medias, result, accepted>>

(* Phase::Reading, b is CR or LF *)
ReadingLineEnd ==
    /\ Running
    /\ phase = "Reading"
    /\ IsEol(b)
    /\ \E checked \in BOOLEAN : Handled(LineEnd(checked), "Begin")

(* Phase::Reading, b is a space *)
ReadingSpace ==
    /\ Running
    /\ phase = "Reading"
    /\ b = SP
    /\ Handled(Space, "Reading")

(* ReadingByte opening the token one byte late. *)
ReadingByte_OneLate ==
    /\ Running
    /\ phase = "Reading"
    /\ ~IsEol(b)
    /\ b # SP
    /\ i' = i + 1
    /\ slice_start' = IF IsSome(slice_start) THEN slice_start ELSE Some(i + 1)
    /\ UNCHANGED <<input, phase, section, op, version, origin, session_name, connection,
                   session_start_time, session_end_time, medias, attributes, result,
                   accepted>>

(* Phase::Reading, any other byte *)
ReadingByte ==
    /\ Running
    /\ phase = "Reading"
    /\ ~IsEol(b)
    /\ b # SP
    /\ i' = i + 1
    /\ slice_start' = IF IsSome(slice_start) THEN slice_start ELSE Some(i)
    /\ UNCHANGED <<input, phase, section, op, version, origin, session_name, connection,
                   session_start_time, session_end_time, medias, attributes, result,
                   accepted>>

(* SkippingErrorStep without the increment of i. *)
SkippingErrorStep_NoAdvance ==
    /\ Running
    /\ phase = "SkippingError"
    /\ i' = i
    /\ phase' = IF IsEol(b) THEN "Begin" ELSE phase
    /\ UNCHANGED <<input, section, op, slice_start, version, origin, session_name,
                   connection, session_start_time, session_end_time, medias, attributes,
                   result, accepted>>

(* Phase::SkippingError *)
SkippingErrorStep ==
    /\ Running
    /\ phase = "SkippingError"
    /\ i' = i + 1
    /\ phase' = IF IsEol(b) THEN "Begin" ELSE phase
    /\ UNCHANGED <<input, section, op, slice_start, version, origin, session_name,
                   connection, session_start_time, session_end_time, medias, attributes,
                   result, accepted>>

(* Finish taking a token left open on an s= line as the session name. *)
Finish_CommitName ==
    /\ result = "running"
    /\ i >= Len(input)
    /\ medias' = PushMedia(medias, section)
    /\ result' = IF SdpComplete(version, origin,
                                IF op.tag = "S" /\ IsSome(slice_start) THEN Some(Tok)
                                ELSE session_name)
                 THEN "some" ELSE "none"
    /\ UNCHANGED <<input, i, phase, section, op, slice_start, version, origin,
                   session_name, connection, session_start_time, session_end_time,
                   attributes, accepted>>

(* After the loop: the last media block, and the result. *)
Finish ==
    /\ result = "running"
    /\ i >= Len(input)
    /\ medias' = PushMedia(medias, section)
    /\ result' = IF SdpComplete(version, origin, session_name) THEN "some" ELSE "none"
    /\ UNCHANGED <<input, i, phase, section, op, slice_start, version, origin,
                   session_name, connection, session_start_time, session_end_time,
                   attributes, accepted>>

Next ==
    \/ BeginStep
    \/ SetStep
    \/ ReadingLineEnd
    \/ ReadingSpace
    \/ ReadingByte
    \/ SkippingErrorStep
    \/ Finish

Spec == Init /\ [][Next]_vars

-----------------------------------------------------------------------------
(* Buffers about media blocks: a complete session head, then up to         *)
(* MaxMediaLines lines out of MediaLines.                                  *)

MaxMediaLines == 4

(* "m=v 49170/2 p 31" *)
PortPairLine ==
    Line("m", Words(<< <<"v">>, <<"4", "9", "1", "7", "0", "/", "2">>, <<"p">>, <<"3", "1">> >>),
         <<LF>>)

MediaLines ==
    { Line("m", <<"a", SP, "1", SP, "p", SP, "0">>, <<LF>>),
      PortPairLine,
      Line("m", <<"a", SP, "1", "/", "2", "/", "3", SP, "p", SP, "0">>, <<LF>>),
      Line("a", <<"x", SP, "y">>, <<LF>>),
      Line("a", <<"z">>, <<LF>>),
      Line("c", <<"n", SP, "t", SP, "d">>, <<LF>>),
      Line("i", <<"h">>, <<LF>>),
      Line("t", <<"0", SP, "0">>, <<LF>>) }

MediaDocs == {VLine \o OLine \o SLine \o Flatten(t) : t \in SeqsUpTo(MediaLines, MaxMediaLines)}

InitMedia ==
    /\ input \in MediaDocs
    /\ i = 0
    /\ phase = "Begin"
    /\ section = SectionMain
    /\ op = OpNone
    /\ slice_start = None
    /\ version = None
    /\ origin = None
    /\ session_name = None
    /\ connection = None
    /\ session_start_time = Zero
    /\ session_end_time = Zero
    /\ medias = <<>>
    /\ attributes = <<>>
    /\ result = "running"
    /\ accepted = <<>>

SpecMedia == InitMedia /\ [][Next]_vars

-----------------------------------------------------------------------------
(* Buffers about malformed lines: a complete session head, then up to      *)
(* MaxEdgeLines lines out of EdgeLines.                                    *)

MaxEdgeLines == 3

EdgeHead == Line("v", <<"0">>, <<LF>>) \o Line("o", Words(SixTokens), <<LF>>)
                \o Line("s", <<"x">>, <<LF>>)

(* "2147483648", one more than i32::MAX *)
TwoTo31 == <<"2", "1", "4", "7", "4", "8", "3", "6", "4", "8">>

(* "m=a <port> p 0" *)
PortLine(port) == Line("m", <<"a", SP>> \o port \o <<SP, "p", SP, "0">>, <<LF>>)

EdgeLines ==
    { <<"i", "?", LF>>,
      Line("t", <<"0", SP>> \o NtpEpochPlusOne \o <<SP, "0">>, <<LF>>),
      Line("t", <<"0">>, <<LF>>),
      Line("t", <<"0", SP, "0">>, <<LF>>),
      PortLine(<<"1">>),
      PortLine(<<"x">>),
      PortLine(<<"6", "5", "5", "3", "6">>),
      PortLine(<<"1", "/", "x">>),
      PortLine(<<"1", "/">>),
      PortLine(<<"1", "/">> \o TwoTo31),
      Line("m", <<"a", SP, "x">>, <<LF>>),
      Line("a", <<"z">>, <<LF>>),
      <<"a", "=", "q">> }

EdgeDocs == {EdgeHead \o Flatten(t) : t \in SeqsUpTo(EdgeLines, MaxEdgeLines)}

InitEdge ==
    /\ input \in EdgeDocs
    /\ i = 0
    /\ phase = "Begin"
    /\ section = SectionMain
    /\ op = OpNone
    /\ slice_start = None
    /\ version = None
    /\ origin = None
    /\ session_name = None
    /\ connection = None
    /\ session_start_time = Zero
    /\ session_end_time = Zero
    /\ medias = <<>>
    /\ attributes = <<>>
    /\ result = "running"
    /\ accepted = <<>>

SpecEdge == InitEdge /\ [][Next]_vars

-----------------------------------------------------------------------------
(* Buffers for the run of the loop to its end: up to MaxRunLines pieces    *)
(* out of RunLines, the complete session head being one of the pieces.     *)

MaxRunLines == 3

RunLines ==
    { EdgeHead,
      <<"i", "?", LF>>,
      PortLine(<<"x">>),
      Line("m", <<"a">>, <<LF>>),
      Line("a", <<"z">>, <<LF>>),
      <<"a", "=", "q">> }

RunDocs == {Flatten(t) : t \in SeqsUpTo(RunLines, MaxRunLines)}

InitRun ==
    /\ input \in RunDocs
    /\ i = 0
    /\ phase = "Begin"
    /\ section = SectionMain
    /\ op = OpNone
    /\ slice_start = None
    /\ version = None
    /\ origin = None
    /\ session_name = None
    /\ connection = None
    /\ session_start_time = Zero
    /\ session_end_time = Zero
    /\ medias = <<>>
    /\ attributes = <<>>
    /\ result = "running"
    /\ accepted = <<>>

(* as_sdp is one sequential call: its loop keeps running until it returns. *)
FairSpec == InitRun /\ [][Next]_vars /\ WF_vars(Next)

-----------------------------------------------------------------------------
(* The lines of the buffer, read off the buffer itself.  A line the Begin  *)
(* phase accepted is a record of `accepted`; its leading byte is at offset *)
(* a.at.                                                                   *)

RECURSIVE EolFrom(_, _)
(* The offset of the first CR or LF at or after offset k, Len(buf) if none. *)
EolFrom(buf, k) ==
    IF k >= Len(buf) THEN Len(buf)
    ELSE IF IsEol(buf[k + 1]) THEN k ELSE EolFrom(buf, k + 1)

(* The leading byte is followed by '='. *)
WellFormed(a) == a.at + 1 < Len(input) /\ input[a.at + 2] = "="

(* The line has a terminator. *)
Terminated(a) == EolFrom(input, a.at) < Len(input)

(* The value of the line: the bytes after "x=" up to the terminator. *)
ValueSlice(a) == Slice(a.at + 2, EolFrom(input, a.at))

ValueOf(a) == BytesOf(input, ValueSlice(a))

RECURSIVE TokensOf(_)
(* The space-separated tokens of a value, in order. *)
TokensOf(v) ==
    IF v = <<>> THEN <<>>
    ELSE IF v[1] = SP THEN TokensOf(Tail(v))
    ELSE LET n == Position(v, SP, 1)
         IN  IF n = 0 THEN <<v>>
             ELSE <<SubSeq(v, 1, n - 1)>> \o TokensOf(SubSeq(v, n + 1, Len(v)))

Range(f) == {f[k] : k \in DOMAIN f}

OptSlices(o) == IF IsSome(o) THEN {o.val} ELSE {}

OriginSlices(o) ==
    IF IsSome(o)
    THEN {o.val.user_id, o.val.session_id, o.val.session_version, o.val.network_type,
          o.val.address_type, o.val.unicast_address}
    ELSE {}

ConnectionSlices(c) ==
    IF IsSome(c)
    THEN {c.val.network_type, c.val.address_type, c.val.connection_address}
    ELSE {}

MediaSlices(m) ==
    {m.media_type, m.protocol} \cup Range(m.formats) \cup ConnectionSlices(m.connection)
        \cup Range(m.attributes)

(* Every slice of the Sdp that is returned when result = "some". *)
SdpSlices ==
    OptSlices(version) \cup OriginSlices(origin) \cup OptSlices(session_name)
        \cup ConnectionSlices(connection) \cup Range(attributes)
        \cup UNION {MediaSlices(medias[k]) : k \in DOMAIN medias}

Overlaps(x, y) == x.s < y.e /\ y.s < x.e

Done == result # "running"

Accepted == Range(accepted)

-----------------------------------------------------------------------------
Discarded == {"I", "U", "E", "P", "B", "Z", "K"}

(* C1. A well-formed line beginning with i, u, e, p, b, z or k that the    *)
(* ordering rule accepted contributes no content: no slice of the returned *)
(* Sdp holds a byte of the value of such a line.                           *)
C1_DiscardedLinesLeaveNoContent ==
    result = "some" =>
        \A a \in Accepted :
            a.op \in Discarded /\ WellFormed(a) =>
                \A sl \in SdpSlices : ~Overlaps(sl, ValueSlice(a))

HeaderComplete(a) ==
    LET toks == TokensOf(ValueOf(a))
    IN  /\ a.op = "M"
        /\ WellFormed(a)
        /\ Terminated(a)
        /\ Len(toks) >= 4
        /\ IsSome(ParsePortPair(toks[2]))

(* C2. Every media block whose m= line gives a media type, a valid port,   *)
(* a protocol and at least one format is appended to medias, whether or    *)
(* not the block has an a= or c= line.                                     *)
C2_EveryCompleteBlockIsAppended ==
    result = "some" =>
        \A a \in Accepted :
            HeaderComplete(a) =>
                \E k \in DOMAIN medias :
                    /\ medias[k].media_type.s >= a.at + 2
                    /\ medias[k].media_type.e <= EolFrom(input, a.at)

(* C3. as_sdp returns an Sdp exactly when the scan reached the end of the  *)
(* buffer without a fatal return and version, origin and session_name are  *)
(* all set there; it returns None when one of them is missing there.       *)
C3_SomeIffCompleteAtEnd ==
    Done =>
        /\ result = "some" <=>
               (i = Len(input) /\ IsSome(version) /\ IsSome(origin) /\ IsSome(session_name))
        /\ (i = Len(input) /\ ~(IsSome(version) /\ IsSome(origin) /\ IsSome(session_name)))
               => result = "none"

C3_Witness ==
    /\ result = "none"
    /\ i = Len(input)
    /\ IsSome(version)
    /\ IsSome(origin)
    /\ ~IsSome(session_name)

(* The first line of s when it ends in CR LF: [ok, line, rest]. *)
CutLine(s) ==
    LET k == EolFrom(s, 0)
    IN  IF k + 2 <= Len(s) /\ s[k + 1] = CR /\ s[k + 2] = LF
        THEN [ok |-> TRUE, line |-> SubSeq(s, 1, k), rest |-> SubSeq(s, k + 3, Len(s))]
        ELSE [ok |-> FALSE, line |-> <<>>, rest |-> <<>>]

(* line is letter, '=', then exactly n tokens separated by single spaces. *)
IsField(line, letter, n) ==
    /\ Len(line) >= 2
    /\ line[1] = letter
    /\ line[2] = "="
    /\ LET v == SubSeq(line, 3, Len(line))
       IN  /\ Len(TokensOf(v)) = n
           /\ v = Words(TokensOf(v))

FieldTokens(line) == TokensOf(SubSeq(line, 3, Len(line)))

MinimalDoc(d) ==
    LET l1 == CutLine(d)
        l2 == CutLine(l1.rest)
        l3 == CutLine(l2.rest)
    IN  /\ l1.ok /\ l2.ok /\ l3.ok
        /\ l3.rest = <<>>
        /\ IsField(l1.line, "v", 1)
        /\ IsField(l2.line, "o", 6)
        /\ IsField(l3.line, "s", 1)

(* C4. A buffer that is exactly a one-token v= line, a six-token o= line   *)
(* and a one-token s= line, each ended by CR LF, parses to an Sdp with     *)
(* those tokens as version, the six Origin fields in order and             *)
(* session_name, no connection, both times 0, no attributes, no medias.    *)
C4_MinimalDocument ==
    Done /\ MinimalDoc(input) =>
        LET l1 == CutLine(input)
            l2 == CutLine(l1.rest)
            l3 == CutLine(l2.rest)
            o  == FieldTokens(l2.line)
        IN  /\ result = "some"
            /\ BytesOf(input, version.val) = FieldTokens(l1.line)[1]
            /\ BytesOf(input, origin.val.user_id) = o[1]
            /\ BytesOf(input, origin.val.session_id) = o[2]
            /\ BytesOf(input, origin.val.session_version) = o[3]
            /\ BytesOf(input, origin.val.network_type) = o[4]
            /\ BytesOf(input, origin.val.address_type) = o[5]
            /\ BytesOf(input, origin.val.unicast_address) = o[6]
            /\ BytesOf(input, session_name.val) = FieldTokens(l3.line)[1]
            /\ connection = None
            /\ session_start_time = Zero
            /\ session_end_time = Zero
            /\ attributes = <<>>
            /\ medias = <<>>

C4_Witness == result = "some" /\ MinimalDoc(input)

Numeric(tok) == to_int_u64(tok).ok

(* val is the decoding of tok: val + 2208988800 = n, without wrapping. *)
Decodes(val, tok, zeroVal) ==
    IF tok = <<"0">> THEN val = zeroVal
    ELSE LimbAdd(val, NTP_OFFSET) = to_int_u64(tok).mag

LastTimeLine(k) == \A j \in DOMAIN accepted : j > k => accepted[j].op # "T"

(* C5. For every accepted t= line with exactly two tokens: the token "0"  *)
(* decodes to 0 as start and to 2^64 - 1 as end, any other numeric token n *)
(* decodes to n - 2208988800; a non-numeric token makes as_sdp return      *)
(* None.                                                                   *)
C5_TimeLineDecoding ==
    Done =>
        \A k \in DOMAIN accepted :
            LET a    == accepted[k]
                toks == TokensOf(ValueOf(a))
                eol  == EolFrom(input, a.at)
            IN  (a.op = "T" /\ WellFormed(a) /\ Terminated(a) /\ Len(toks) = 2 /\ i >= eol) =>
                    IF Numeric(toks[1]) /\ Numeric(toks[2])
                    THEN /\ i > eol
                         /\ LastTimeLine(k) =>
                                /\ Decodes(session_start_time, toks[1], U64_MIN)
                                /\ Decodes(session_end_time, toks[2], U64_MAX)
                    ELSE result = "none" /\ i = eol

NoUnderflow(tok) ==
    tok = <<"0">> \/ ~Numeric(tok) \/ ~LimbLess(to_int_u64(tok).mag, NTP_OFFSET)

(* C6. Decoding a numeric t= token other than "0" never underflows: the    *)
(* u64 subtraction t - 2208988800 is never made with t < 2208988800, and   *)
(* as_sdp never panics.                                                    *)
C6_NoUnderflow ==
    /\ result # "panic"
    /\ (Running /\ phase = "Reading" /\ IsEol(b) /\ section.tag = "Time" /\ op.tag = "T"
            /\ IsSome(op.f[1])) =>
           /\ NoUnderflow(BytesOf(input, op.f[1].val))
           /\ IsSome(slice_start) /\ Numeric(BytesOf(input, op.f[1].val))
                  => NoUnderflow(BytesOf(input, Tok))

AttributeSlices ==
    Range(attributes) \cup UNION {Range(medias[k].attributes) : k \in DOMAIN medias}

AttributeLines ==
    {a \in Accepted : a.op = "A" /\ WellFormed(a) /\ Terminated(a) /\ ValueOf(a) # <<>>}

(* C7. For every accepted a= line the attribute recorded is the whole      *)
(* remainder of the line after "a=" up to the terminator, as one slice.    *)
C7_AttributeIsWholeRemainder ==
    result = "some" =>
        /\ \A a \in AttributeLines :
               a.section \in {"Main", "Time"} => ValueSlice(a) \in Range(attributes)
        /\ \A sl \in AttributeSlices : \E a \in AttributeLines : sl = ValueSlice(a)

OriginLines == {a \in Accepted : a.op = "O" /\ WellFormed(a)}

(* C8. An accepted o= line that does not carry exactly six tokens keeps    *)
(* as_sdp from returning an Sdp, and the Origin of a returned Sdp has the  *)
(* six tokens of the o= line, in order, as its six fields.                 *)
C8_OriginAllOrNothing ==
    /\ (Done /\ \E a \in OriginLines : Len(TokensOf(ValueOf(a))) # 6) => result # "some"
    /\ result = "some" =>
           \E a \in OriginLines :
               LET toks == TokensOf(ValueOf(a))
                   o    == origin.val
               IN  /\ Len(toks) = 6
                   /\ <<BytesOf(input, o.user_id), BytesOf(input, o.session_id),
                        BytesOf(input, o.session_version), BytesOf(input, o.network_type),
                        BytesOf(input, o.address_type), BytesOf(input, o.unicast_address)>>
                          = toks

(* An o= line of five tokens and a trailing space, scanned to the end of   *)
(* the buffer.                                                             *)
C8_Witness ==
    /\ result = "none"
    /\ i = Len(input)
    /\ \E a \in OriginLines :
           /\ Terminated(a)
           /\ Len(TokensOf(ValueOf(a))) = 5
           /\ ValueOf(a)[Len(ValueOf(a))] = SP

(* C9. For every accepted c= line either the three fields are populated    *)
(* into a ConnectionData or as_sdp returns None: a c= line that reaches    *)
(* its terminator with fewer than three tokens never lets the parse        *)
(* succeed.                                                                *)
C9_ConnectionAllOrNothing ==
    result = "some" =>
        \A a \in Accepted :
            (a.op = "C" /\ WellFormed(a) /\ Terminated(a)) => Len(TokensOf(ValueOf(a))) >= 3

OrderOf(tag) == get_order(Op(tag, <<>>))

Increasing(x, y) == OrderOf(x) < OrderOf(y) \/ (x = "A" /\ y = "A")

(* C10. In Section::Main a leading byte is accepted only if its order is   *)
(* greater than the current operator's or both are a; so the operators     *)
(* accepted in Main, repeated a aside, are strictly increasing in order.   *)
C10_MainOrderIncreasing ==
    /\ \A a \in Accepted : a.section = "Main" => Increasing(a.prev, a.op)
    /\ \A j, k \in DOMAIN accepted :
           (j < k /\ accepted[j].section = "Main" /\ accepted[k].section = "Main")
               => Increasing(accepted[j].op, accepted[k].op)

(* Three lines accepted in Main, the last two both a=. *)
C10_Witness ==
    /\ Len(accepted) >= 3
    /\ \A k \in 1..3 : accepted[k].section = "Main"
    /\ accepted[2].op = "A"
    /\ accepted[3].op = "A"

(* A t= line of exactly two numeric tokens. *)
WellFormedTime(a) ==
    LET toks == TokensOf(ValueOf(a))
    IN  Len(toks) = 2 /\ Numeric(toks[1]) /\ Numeric(toks[2])

(* as_sdp returned or panicked inside the loop, while reading line a. *)
AbortedIn(a) ==
    /\ result \in {"none", "panic"}
    /\ i < Len(input)
    /\ a.at <= i
    /\ i <= EolFrom(input, a.at)

(* C11. Once the section is Time, lines beginning with t, r, z, k, a or m  *)
(* repeat and interleave freely: each such line that is accepted there is  *)
(* processed without a fatal return, provided a t= line is well formed.    *)
C11_TimeLinesNeverFatal ==
    \A a \in Accepted :
        (a.section = "Time" /\ WellFormed(a)
            /\ a.op \in {"T", "R", "Z", "K", "A", "M"}
            /\ (a.op = "T" => WellFormedTime(a)))
            => ~AbortedIn(a)

-----------------------------------------------------------------------------
MediaLetters == {"i", "c", "b", "k", "a", "m"}

(* The rule of the claim for leading byte c when the in-media operator is cur. *)
MediaRule(cur, c) ==
    /\ c \in MediaLetters
    /\ Increasing(cur, NextOp(c).tag)

(* The last accepted line is an m= header. *)
AfterMediaHeader ==
    /\ accepted # <<>>
    /\ accepted[Len(accepted)].op = "M"
    /\ accepted[Len(accepted)].at + 2 <= Len(input)
    /\ input[accepted[Len(accepted)].at + 2] = "="

BeginsLineInMedia == Running /\ phase = "Begin" /\ section.tag = "Media" /\ ~IsEol(b)

(* C12. In Section::Media a leading byte is accepted exactly when it is    *)
(* one of i, c, b, k, a, m and its order is greater than the in-media      *)
(* operator's, or both are a; after an m= header the in-media operator is  *)
(* the sentinel None; every other line goes to SkippingError.              *)
C12_MediaAcceptance ==
    /\ [](phase = "Begin" /\ section.tag = "Media" /\ AfterMediaHeader => op = OpNone)
    /\ [][BeginsLineInMedia =>
            /\ phase' = (IF MediaRule(op.tag, b) THEN "Set" ELSE "SkippingError")
            /\ (accepted' # accepted) = MediaRule(op.tag, b)]_vars

(* In a media block, c= was accepted after i=. *)
C12_Witness ==
    \E k \in DOMAIN accepted :
        /\ accepted[k].section = "Media"
        /\ accepted[k].prev = "I"
        /\ accepted[k].op = "C"

-----------------------------------------------------------------------------
Letters == {"v", "o", "s", "i", "u", "e", "p", "c", "b", "t", "r", "z", "k", "a", "m"}

(* What a skipped line may not touch. *)
parsed == <<op, section, slice_start, version, origin, session_name, connection,
            session_start_time, session_end_time, medias, attributes, accepted>>

(* C13. A line whose leading byte is none of the fifteen letters goes, in  *)
(* every section and under every current operator, to SkippingError; it is *)
(* discarded up to the next CR or LF, where the phase returns to Begin;    *)
(* neither step returns from as_sdp or changes what has been parsed.       *)
C13_UnknownLetterSkipped ==
    [][(Running /\ i < Len(input)) =>
        /\ (phase = "Begin" /\ ~IsEol(b) /\ b \notin Letters) =>
                /\ phase' = "SkippingError"
                /\ result' = "running"
                /\ UNCHANGED parsed
        /\ phase = "SkippingError" =>
                /\ phase' = (IF IsEol(b) THEN "Begin" ELSE "SkippingError")
                /\ result' = "running"
                /\ UNCHANGED parsed]_vars

(* The first byte of a line with an unknown letter has just been read in   *)
(* a media block whose operator is A.                                      *)
C13_Witness ==
    /\ phase = "SkippingError"
    /\ section.tag = "Media"
    /\ op.tag = "A"
    /\ i >= 2
    /\ IsEol(input[i - 1])
    /\ input[i] \notin Letters

-----------------------------------------------------------------------------
(* The offset of the first space in the value of line a; the value has one. *)
FirstSpace(a) == a.at + 1 + Position(ValueOf(a), SP, 1)

HasSpace(a) == Position(ValueOf(a), SP, 1) # 0

(* C14. When the value of an accepted v= or s= line holds a space byte,    *)
(* leading, embedded or trailing, as_sdp returns None on reading the first *)
(* such byte: the scan never passes it and ends there with None.           *)
C14_SpaceInVersionOrNameIsFatal ==
    \A a \in Accepted :
        (a.op \in {"V", "S"} /\ WellFormed(a) /\ HasSpace(a)) =>
            /\ i <= FirstSpace(a)
            /\ Done => (result = "none" /\ i = FirstSpace(a))

(* as_sdp returned None at a space that opens the value of an s= line. *)
C14_Witness ==
    /\ result = "none"
    /\ accepted # <<>>
    /\ accepted[Len(accepted)].op = "S"
    /\ i = accepted[Len(accepted)].at + 2
    /\ b = SP

-----------------------------------------------------------------------------
(* A space is read that closes the port token of an m= header. *)
PortTokenClosed ==
    /\ Running
    /\ i < Len(input)
    /\ phase = "Reading"
    /\ b = SP
    /\ section.tag = "Media"
    /\ op.tag = "None"
    /\ IsSome(section.media_type)
    /\ ~IsSome(section.port_pair)
    /\ ~IsSome(section.protocol)
    /\ ~IsSome(section.formats)
    /\ IsSome(slice_start)

(* A run of one to n digits. *)
DigitRun(s, n) == Len(s) \in 1..n /\ \A k \in DOMAIN s : s[k] \in Digits

(* The pair the claim gives for port token tok; tok is a port number, or a *)
(* port number, '/', and a count.                                          *)
PortPairOf(tok) ==
    LET idx == Position(tok, "/", 1)
    IN  IF idx = 0 THEN <<DecVal(tok), 1>>
        ELSE <<DecVal(SubSeq(tok, 1, idx - 1)), DecVal(SubSeq(tok, idx + 1, Len(tok)))>>

PlainPortToken(tok) ==
    LET idx == Position(tok, "/", 1)
    IN  IF idx = 0 THEN DigitRun(tok, 5) /\ DecVal(tok) <= 65535
        ELSE /\ DigitRun(SubSeq(tok, 1, idx - 1), 5)
             /\ DecVal(SubSeq(tok, 1, idx - 1)) <= 65535
             /\ DigitRun(SubSeq(tok, idx + 1, Len(tok)), 9)

(* The last accepted m= line. *)
IsLastHeader(a) ==
    /\ a \in Accepted
    /\ a.op = "M"
    /\ WellFormed(a)
    /\ \A c \in Accepted : (c.op = "M" /\ WellFormed(c)) => c.at <= a.at

(* The m= line a media description of the result was read from. *)
HeaderOf(m, a) ==
    /\ a \in Accepted
    /\ a.op = "M"
    /\ a.at < m.protocol.s
    /\ m.protocol.s <= EolFrom(input, a.at)

(* "v 49170/2 p 31" *)
ExampleValue ==
    <<"v", SP, "4", "9", "1", "7", "0", "/", "2", SP, "p", SP, "3", "1">>

(* C15. The port token of an m= line without '/' gives number_of_ports 1   *)
(* and the token's value as port; with '/', the part left of the first '/' *)
(* is the port and the part right of it the number of ports.  The line     *)
(* m=v 49170/2 p 31 gives port 49170 and number_of_ports 2, in the block   *)
(* being read and in the media description pushed from it.                 *)
C15_PortToken ==
    /\ [][(PortTokenClosed /\ PlainPortToken(BytesOf(input, Tok))) =>
            section'.port_pair = Some(PortPairOf(BytesOf(input, Tok)))]_vars
    /\ [](\A a \in Accepted :
            (a.op = "M" /\ WellFormed(a) /\ ValueOf(a) = ExampleValue) =>
                /\ (IsLastHeader(a) /\ phase = "Begin" /\ section.tag = "Media") =>
                        section.port_pair = Some(<<49170, 2>>)
                /\ \A k \in DOMAIN medias :
                        HeaderOf(medias[k], a) =>
                            medias[k].port = 49170 /\ medias[k].number_of_ports = 2)

(* A media description read from m=v 49170/2 p 31 has been pushed. *)
C15_Witness ==
    \E k \in DOMAIN medias : \E a \in Accepted :
        /\ HeaderOf(medias[k], a)
        /\ ValueOf(a) = ExampleValue
        /\ medias[k].number_of_ports = 2

-----------------------------------------------------------------------------
IsPrefix(s, t) == Len(s) <= Len(t) /\ SubSeq(t, 1, Len(s)) = s

OptSeq(o) == IF IsSome(o) THEN o.val ELSE <<>>

(* The line terminator of an accepted a= line is read. *)
AttributeLineEnd ==
    /\ Running
    /\ i < Len(input)
    /\ phase = "Reading"
    /\ IsEol(b)
    /\ op.tag = "A"

(* xs with the open token, if there is one, appended. *)
WithToken(xs) == IF IsSome(slice_start) THEN Append(xs, Tok) ELSE xs

(* Each slice of xs ends at the terminator of an a= line accepted in one   *)
(* of the sections secs, and the slices are in the order of the buffer.    *)
FromAttributeLines(xs, secs) ==
    /\ \A k \in DOMAIN xs : \E a \in Accepted :
            a.op = "A" /\ a.section \in secs /\ EolFrom(input, a.at) = xs[k].e
    /\ \A j, k \in DOMAIN xs : j < k => xs[j].e < xs[k].e

(* C16. a= lines accumulate and never replace.  The terminator of an a=    *)
(* line accepted in Main or Time appends its token to the session-level    *)
(* attributes and leaves the media block and the media descriptions alone; *)
(* in a media block it appends to that block's attributes and leaves the   *)
(* session-level attributes and the pushed media descriptions alone.  No   *)
(* step removes or rewrites an attribute already recorded, and every       *)
(* attribute list is in the order of the buffer.                           *)
C16_AttributesAccumulate ==
    /\ [][/\ IsPrefix(attributes, attributes')
          /\ IsPrefix(medias, medias')
          /\ (section.tag = "Media" /\ section'.tag = "Media" /\ phase # "Set") =>
                IsPrefix(OptSeq(section.attributes), OptSeq(section'.attributes))
          /\ (AttributeLineEnd /\ section.tag \in {"Main", "Time"}) =>
                /\ attributes' = WithToken(attributes)
                /\ UNCHANGED <<section, medias>>
          /\ (AttributeLineEnd /\ section.tag = "Media") =>
                /\ OptSeq(section'.attributes) = WithToken(OptSeq(section.attributes))
                /\ UNCHANGED <<attributes, medias>>]_vars
    /\ [](/\ FromAttributeLines(attributes, {"Main", "Time"})
          /\ section.tag = "Media" => FromAttributeLines(OptSeq(section.attributes), {"Media"})
          /\ \A k \in DOMAIN medias : FromAttributeLines(medias[k].attributes, {"Media"}))

(* The result has a session-level attribute and a media description with  *)
(* two attributes.                                                         *)
C16_Witness ==
    /\ result = "some"
    /\ attributes # <<>>
    /\ \E k \in DOMAIN medias : Len(medias[k].attributes) >= 2

-----------------------------------------------------------------------------
(* C17. Every byte span of a returned Sdp is a slice input[s..e) of the    *)
(* buffer with 0 <= s < e <= len: never empty, never past the end.         *)
C17_SpansAreSubSlices ==
    result = "some" =>
        \A x \in SdpSlices : 0 <= x.s /\ x.s < x.e /\ x.e <= Len(input)

(* An Sdp with a media description and a span of one byte is returned. *)
C17_Witness ==
    /\ result = "some"
    /\ medias # <<>>
    /\ \E x \in SdpSlices : x.e = x.s + 1

-----------------------------------------------------------------------------
(* C18. Whenever the phase is Begin no token is open: slice_start is None  *)
(* after every line terminator read in Reading, whatever the operator and  *)
(* the section.                                                            *)
C18_NoOpenTokenInBegin == phase = "Begin" => slice_start = None

-----------------------------------------------------------------------------
(* Slice x lies in the value of one accepted line, after its "x=". *)
InOneValue(x) ==
    \E a \in Accepted :
        WellFormed(a) /\ a.at + 2 <= x.s /\ x.e <= EolFrom(input, a.at)

Holds(x, c) == \E k \in x.s + 1 .. x.e : input[k] = c

(* C19. Every span of a returned Sdp lies within the value of a single     *)
(* line: it holds no CR or LF, no byte of a second line and no byte of a   *)
(* line's "x=" prefix; a span that is not an attribute holds no space.     *)
C19_SpansWithinOneLine ==
    result = "some" =>
        /\ \A x \in SdpSlices : InOneValue(x) /\ ~Holds(x, CR) /\ ~Holds(x, LF)
        /\ \A x \in SdpSlices \ AttributeSlices : ~Holds(x, SP)

-----------------------------------------------------------------------------
(* The operators the Reading handlers of a section have an arm for, on a   *)
(* space and on a line terminator; any other operator falls to the arm     *)
(* that prints "Unknown description in ... section" and returns None.  In  *)
(* Media only the space handler has such an arm.                           *)
Handled_Main == {"V", "O", "S", "I", "U", "E", "P", "C", "B", "Z", "K", "A"}

Handled_Time == {"T", "R", "A"}

Handled_Media == {"None", "I", "C", "B", "K", "A"}

(* as_sdp returned from an "Unknown description" arm. *)
UnknownDescription(sec) ==
    /\ result = "none"
    /\ i < Len(input)
    /\ phase = "Reading"
    /\ section.tag = sec
    /\ CASE sec = "Main" -> op.tag \notin Handled_Main /\ (b = SP \/ IsEol(b))
         [] sec = "Time" -> op.tag \notin Handled_Time /\ (b = SP \/ IsEol(b))
         [] sec = "Media" -> op.tag \notin Handled_Media /\ b = SP

(* C20. The returns of the "Unknown description in main/time/media         *)
(* section" arms are unreachable: every operator the ordering rule lets    *)
(* into Reading in a section has a handler there that does not return, on  *)
(* a space and on a line terminator.                                       *)
C20_UnknownDescriptionUnreachable ==
    \A sec \in {"Main", "Time", "Media"} : ~UnknownDescription(sec)

-----------------------------------------------------------------------------
(* C21. A line discarded through SkippingError, whether the ordering rule  *)
(* rejected it in Begin or Set rejected it because its leading byte is not *)
(* followed by '=', leaves the section, the current operator and every     *)
(* accumulated field as they were before the line: no step into or inside  *)
(* SkippingError changes them, and when Set rejects a line the operator is *)
(* still the one that was current when the line began.                     *)
C21_SkippedLineChangesNothing ==
    [][Running =>
        /\ (phase' = "SkippingError" \/ phase = "SkippingError") => UNCHANGED parsed
        /\ (phase = "Set" /\ phase' = "SkippingError") =>
                op.tag = accepted[Len(accepted)].prev]_vars

-----------------------------------------------------------------------------
SectionRank(tag) == CASE tag = "Main" -> 0 [] tag = "Time" -> 1 [] tag = "Media" -> 2

(* C22. The section only moves forward, Main to Time to Media: no step     *)
(* takes it back, and once an m= line has been accepted every later        *)
(* accepted line is accepted in Media and none of them is a t= or r= line. *)
C22_SectionMovesForward ==
    /\ [][SectionRank(section'.tag) >= SectionRank(section.tag)]_vars
    /\ [](\A a, c \in Accepted :
            (c.op = "M" /\ WellFormed(c) /\ c.at < a.at) =>
                a.section = "Media" /\ a.op \notin {"T", "R"})

(* After a t= line and an m= line a second t= line is being skipped. *)
C22_Witness ==
    /\ \E a \in Accepted : a.op = "T" /\ WellFormed(a)
    /\ section.tag = "Media"
    /\ phase = "SkippingError"
    /\ i >= 2
    /\ IsEol(input[i - 1])
    /\ input[i] = "t"

-----------------------------------------------------------------------------
(* ds is a decimal number, digits only, of value at most max (in limbs). *)
DecimalUpTo(ds, max) ==
    /\ ds # <<>>
    /\ \A k \in DOMAIN ds : ds[k] \in Digits
    /\ Len(StripZeros(ds)) <= 27
    /\ ~LimbLess(max, ToLimbs(StripZeros(ds)))

(* A count of ports: a decimal number in the range of i32, with or without *)
(* a sign.                                                                 *)
WellFormedCount(r) ==
    IF r # <<>> /\ r[1] = "-" THEN DecimalUpTo(Tail(r), I32_MIN_MAG)
    ELSE IF r # <<>> /\ r[1] = "+" THEN DecimalUpTo(Tail(r), I32_MAX)
    ELSE DecimalUpTo(r, I32_MAX)

(* A port in 0..65535, alone or followed by '/' and a count. *)
WellFormedPort(tok) ==
    LET idx == Position(tok, "/", 1)
    IN  IF idx = 0 THEN DecimalUpTo(tok, U16_MAX)
        ELSE /\ DecimalUpTo(SubSeq(tok, 1, idx - 1), U16_MAX)
             /\ WellFormedCount(SubSeq(tok, idx + 1, Len(tok)))

(* Line a is an m= header whose second token is not a well-formed port. *)
BadPortHeader(a) ==
    /\ a.op = "M"
    /\ WellFormed(a)
    /\ Len(TokensOf(ValueOf(a))) >= 2
    /\ ~WellFormedPort(TokensOf(ValueOf(a))[2])

(* C23. An m= line whose port token is not a well-formed port makes        *)
(* as_sdp return None, wherever the token sits on the line, the last       *)
(* token before the line terminator included: no Sdp is returned for a     *)
(* buffer with such a line.                                                *)
C23_BadPortIsFatal ==
    result = "some" => \A a \in Accepted : ~BadPortHeader(a)

-----------------------------------------------------------------------------
(* A time token whose decoding is defined. *)
Decodable(tok) == Numeric(tok) /\ NoUnderflow(tok)

(* C24. For every accepted t= line, session_start_time is decoded from the *)
(* first token of the line and session_end_time from the second; a t= line *)
(* with fewer than two tokens makes as_sdp return None at its terminator.  *)
C24_TimeTokenPositions ==
    Done =>
        \A k \in DOMAIN accepted :
            LET a    == accepted[k]
                toks == TokensOf(ValueOf(a))
                eol  == EolFrom(input, a.at)
            IN  (a.op = "T" /\ WellFormed(a) /\ Terminated(a) /\ i >= eol) =>
                    IF Len(toks) < 2 THEN result = "none" /\ i = eol
                    ELSE (i > eol /\ LastTimeLine(k)
                            /\ Decodable(toks[1]) /\ Decodable(toks[2])) =>
                                /\ Decodes(session_start_time, toks[1], U64_MIN)
                                /\ Decodes(session_end_time, toks[2], U64_MAX)

-----------------------------------------------------------------------------
(* The line terminator of an accepted c= line is read. *)
ConnectionLineEnd ==
    /\ Running
    /\ i < Len(input)
    /\ phase = "Reading"
    /\ IsEol(b)
    /\ op.tag = "C"

(* Connection c was read from a c= line accepted in section sec. *)
ConnectionFrom(c, sec) ==
    \E a \in Accepted :
        a.op = "C" /\ a.section = sec /\ EolFrom(input, a.at) = c.connection_address.e

(* Connection c was read from a c= line of the block of media description  *)
(* m: the line follows the m= header of m with no m= header in between.    *)
OwnConnection(m, c) ==
    \E a, h \in Accepted :
        /\ HeaderOf(m, h)
        /\ a.op = "C"
        /\ a.section = "Media"
        /\ EolFrom(input, a.at) = c.connection_address.e
        /\ h.at < a.at
        /\ \A g \in Accepted : (g.op = "M" /\ WellFormed(g)) => (g.at <= h.at \/ a.at < g.at)

(* C25. A c= line accepted in a media block sets only the connection of    *)
(* that block: the session-level connection and the media descriptions     *)
(* already pushed stay as they are.  A c= line accepted in Main sets only  *)
(* the session-level connection.  So the connection of the result comes    *)
(* from a c= line of Main and the connection of each media description     *)
(* from a c= line of its own block.                                        *)
C25_ConnectionFrame ==
    /\ [][/\ (ConnectionLineEnd /\ section.tag = "Media") =>
                /\ UNCHANGED <<connection, medias>>
                /\ [section' EXCEPT !.connection = section.connection] = section
          /\ (ConnectionLineEnd /\ section.tag = "Main") => UNCHANGED <<section, medias>>
          /\ connection' # connection => (ConnectionLineEnd /\ section.tag = "Main")
          /\ IsPrefix(medias, medias')]_vars
    /\ [](/\ IsSome(connection) => ConnectionFrom(connection.val, "Main")
          /\ \A k \in DOMAIN medias :
                IsSome(medias[k].connection) =>
                    OwnConnection(medias[k], medias[k].connection.val))

(* An Sdp with a session-level connection and a media description with a   *)
(* connection of its own is returned.                                      *)
C25_Witness ==
    /\ result = "some"
    /\ IsSome(connection)
    /\ \E k \in DOMAIN medias : IsSome(medias[k].connection)

-----------------------------------------------------------------------------
(* The bytes of each slice of a sequence of slices. *)
BytesOfAll(xs) == [k \in DOMAIN xs |-> BytesOf(input, xs[k])]

(* Media description m holds the tokens of the m= line h. *)
ReadFromHeader(m, h) ==
    LET toks == TokensOf(ValueOf(h))
    IN  /\ HeaderOf(m, h)
        /\ Len(toks) >= 4
        /\ BytesOf(input, m.media_type) = toks[1]
        /\ <<m.port, m.number_of_ports>> = PortPairOf(toks[2])
        /\ BytesOf(input, m.protocol) = toks[3]
        /\ BytesOfAll(m.formats) = SubSeq(toks, 4, Len(toks))

(* C26. Every Media of a returned Sdp has a non-empty formats list that is *)
(* exactly the fourth and following tokens of its own m= line, in order,   *)
(* with media_type, port and protocol from the first three tokens; the     *)
(* medias are in the order of their m= lines and are no more than the      *)
(* accepted m= lines.                                                      *)
C26_MediaFromHeaderTokens ==
    result = "some" =>
        /\ \A k \in DOMAIN medias :
                /\ medias[k].formats # <<>>
                /\ \E h \in Accepted : ReadFromHeader(medias[k], h)
        /\ \A j, k \in DOMAIN medias : j < k => medias[j].protocol.s < medias[k].protocol.s
        /\ Len(medias) <= Cardinality({a \in Accepted : a.op = "M" /\ WellFormed(a)})

-----------------------------------------------------------------------------
(* C27. A token is committed only when the byte that ends it is read: each *)
(* slice of the state ends before the end of the buffer, at a space or a   *)
(* line terminator, so the final token of an unterminated last line is     *)
(* never stored; and an Sdp is returned only if its session name ends at   *)
(* the terminator of an accepted s= line, so a buffer whose only s= line   *)
(* is its unterminated last line gives None.                               *)
C27_UnterminatedLineNotCommitted ==
    /\ \A x \in SdpSlices :
            x.e < Len(input) /\ (input[x.e + 1] = SP \/ IsEol(input[x.e + 1]))
    /\ result = "some" =>
            /\ IsSome(session_name)
            /\ \E a \in Accepted :
                    /\ a.op = "S"
                    /\ Terminated(a)
                    /\ EolFrom(input, a.at) = session_name.val.e

(* The buffer ended inside an accepted s= line with its token open, after  *)
(* a version and an origin, and as_sdp returned None.                      *)
C27_Witness ==
    /\ result = "none"
    /\ i = Len(input)
    /\ IsSome(version)
    /\ IsSome(origin)
    /\ accepted # <<>>
    /\ accepted[Len(accepted)].op = "S"
    /\ ~Terminated(accepted[Len(accepted)])
    /\ phase = "Reading"
    /\ IsSome(slice_start)

-----------------------------------------------------------------------------
(* C28. version, origin, session_name and the session-level connection are *)
(* written once: no step changes or clears one of them that is set.        *)
C28_WriteOnce ==
    [][/\ IsSome(version) => version' = version
       /\ IsSome(origin) => origin' = origin
       /\ IsSome(session_name) => session_name' = session_name
       /\ IsSome(connection) => connection' = connection]_vars

(* All four are set and a later a= line has been recorded. *)
C28_Witness ==
    /\ IsSome(version)
    /\ IsSome(origin)
    /\ IsSome(session_name)
    /\ IsSome(connection)
    /\ attributes # <<>>
    /\ \A k \in DOMAIN attributes :
            attributes[k].s > connection.val.connection_address.e

-----------------------------------------------------------------------------
(* C29. as_sdp terminates after one forward pass: every iteration of the   *)
(* loop either ends the call, leaving i where it is, or advances i by      *)
(* exactly one; i never passes the length of the buffer, so no byte is     *)
(* read twice and there are at most Len(input) iterations; and the call    *)
(* always ends.  (A panic of the loop body ends the call as well.)         *)
C29_SingleForwardPass ==
    /\ [][IF Running
          THEN \/ result' # "running" /\ i' = i
               \/ result' = "running" /\ i' = i + 1
          ELSE result' # "running" /\ i' = i]_vars
    /\ [](i <= Len(input))
    /\ <>Done

(* The whole of a buffer with lines after the head has been read and an    *)
(* Sdp is returned.                                                        *)
C29_Witness ==
    /\ result = "some"
    /\ i = Len(input)
    /\ Len(input) > Len(EdgeHead)

====
